---- MODULE Spec2Model ----
(***************************************************************************)
(* Threshold-signed FOMC oracle (Entropy-Foundation/tao_fomc).             *)
(*                                                                         *)
(* Part 1: threshold_signing.py -- Shamir key generation, partial          *)
(* signing, Lagrange combination and verification, driven the way main()   *)
(* and the integration scripts drive the library.                          *)
(*                                                                         *)
(* Abstraction of BLS12-381 (py_ecc): a point k*G1 or k*G2 is represented  *)
(* by its scalar k modulo curve_order, so multiply(P, s) is k*s, add is    *)
(* +, the compressed byte encodings (G1_to_pubkey, G2_to_signature and     *)
(* their inverses, to_bytes(32,'big') / from_bytes on scalars below        *)
(* curve_order) are injective and carried by the scalar itself, and the    *)
(* pairing equation e(pk, H(m)) = e(G1, sig) is pk * H(m) = sig.  The      *)
(* field is a small prime field so that TLC can enumerate every            *)
(* polynomial secrets.randbelow can draw.                                  *)
(*                                                                         *)
(* Part 2: client.py -- one run of run_threshold_client: health check,     *)
(* concurrent fan-out to the servers with the as_completed collection      *)
(* loop, consensus, combination and the two ledger transactions.           *)
(*                                                                         *)
(* Part 3: multi_web_api.py -- the POST /extract endpoint of one server.   *)
(*                                                                         *)
(* Part 4: threshold_integration_supra.py -- one run of                    *)
(* run_threshold_integration_supra with its optional key registration.     *)
(*                                                                         *)
(* Part 5: create_bcs_message_for_fomc applied to a range of magnitudes.   *)
(*                                                                         *)
(* Part 6: chat.py -- the conversation of extract with the language        *)
(* model, one step per model call.                                         *)
(*                                                                         *)
(* Part 7: client.py again -- calls that complete after the collection     *)
(* loop has been left, and a second attestation against servers that       *)
(* repeat their outcomes.                                                  *)
(*                                                                         *)
(* Part 8: threshold_signing.py again -- set_threshold_config, get_n and   *)
(* get_t as a library API, and combine_threshold_signatures on the         *)
(* partial signatures of any number of participants.                       *)
(***************************************************************************)
EXTENDS Integers, Sequences, FiniteSets, TLC

\* ------------------------------------------------------------- constants

\* py_ecc curve_order (a 255-bit prime), scaled down to a small prime.
curve_order == 5
DEFAULT_N == 4
DEFAULT_T == 3

\* Largest n (and t) that set_threshold_config is called with in the model.
\* Participant ids 1..n must stay distinct and non-zero modulo curve_order.
MaxN == 3

Field == 0 .. (curve_order - 1)

\* ------------------------------------------------------------- helpers

RECURSIVE SortedSeq(_)
\* sorted(S) / list(range(...)): the ascending list of a set of ints.
SortedSeq(S) ==
    IF S = {} THEN <<>>
    ELSE LET m == CHOOSE x \in S : \A y \in S : x <= y
         IN  <<m>> \o SortedSeq(S \ {m})

SeqToSet(s) == { s[k] : k \in 1 .. Len(s) }

\* indices[:k]
Take(s, k) == SubSeq(s, 1, IF k < Len(s) THEN k ELSE Len(s))

RECURSIVE pow(_, _, _)
\* Python pow(x, i, m) for i >= 0.
pow(x, i, m) == IF i = 0 THEN 1 % m ELSE (x * pow(x, i - 1, m)) % m

\* ------------------------------------------------- scalar field arithmetic

\* pow(x, -1, curve_order): the inverse of x modulo curve_order.
mod_inv(x) == CHOOSE y \in Field : (x * y) % curve_order = 1

RECURSIVE LagrangeNumDen(_, _, _)
\* The loop of lagrange_coefficient over ids[1..k]: <<num, den>>.
LagrangeNumDen(i, ids, k) ==
    IF k = 0 THEN <<1, 1>>
    ELSE LET prev == LagrangeNumDen(i, ids, k - 1)
             j    == ids[k]
         IN  IF j = i THEN prev
             ELSE << (prev[1] * j) % curve_order,
                     (prev[2] * (j - i)) % curve_order >>

\* A sign slip in the denominator: (i - j) instead of (j - i).
RECURSIVE LagrangeNumDenSwapped(_, _, _)
LagrangeNumDenSwapped(i, ids, k) ==
    IF k = 0 THEN <<1, 1>>
    ELSE LET prev == LagrangeNumDenSwapped(i, ids, k - 1)
             j    == ids[k]
         IN  IF j = i THEN prev
             ELSE << (prev[1] * j) % curve_order,
                     (prev[2] * (i - j)) % curve_order >>

lagrange_coefficient_swapped(i, ids) ==
    LET nd == LagrangeNumDenSwapped(i, ids, Len(ids))
    IN  (nd[1] * mod_inv(nd[2])) % curve_order

lagrange_coefficient(i, ids) ==
    LET nd == LagrangeNumDen(i, ids, Len(ids))
    IN  (nd[1] * mod_inv(nd[2])) % curve_order

\* Coefficients drawn as randbelow(curve_order - 1) + 1: never zero.
generate_polynomial_nonzero(degree, secret) ==
    { <<secret>> \o [k \in 1 .. degree |-> c[k]] :
          c \in [1 .. degree -> 1 .. (curve_order - 1)] }

\* Every list generate_polynomial(degree, secret) can return: the secret
\* followed by `degree` draws of secrets.randbelow(curve_order).
generate_polynomial(degree, secret) ==
    { <<secret>> \o [k \in 1 .. degree |-> c[k]] : c \in [1 .. degree -> Field] }

RECURSIVE EvalTermsShifted(_, _, _)
\* An off-by-one exponent: coef * x^(i+1) instead of coef * x^i.
EvalTermsShifted(poly, x, k) ==
    IF k = 0 THEN 0
    ELSE LET term == (poly[k] * pow(x, k, curve_order)) % curve_order
         IN  (EvalTermsShifted(poly, x, k - 1) + term) % curve_order

evaluate_polynomial_shifted(poly, x) == EvalTermsShifted(poly, x, Len(poly))

RECURSIVE EvalTerms(_, _, _)
\* The loop of evaluate_polynomial over poly[1..k] (exponents 0..k-1).
EvalTerms(poly, x, k) ==
    IF k = 0 THEN 0
    ELSE LET term == (poly[k] * pow(x, k - 1, curve_order)) % curve_order
         IN  (EvalTerms(poly, x, k - 1) + term) % curve_order

evaluate_polynomial(poly, x) == EvalTerms(poly, x, Len(poly))

\* ------------------------------------------------------ canonical message

RECURSIVE ShiftRight8(_, _)
\* v >> (8 * k)
ShiftRight8(v, k) == IF k = 0 THEN v ELSE ShiftRight8(v \div 256, k - 1)

\* Only the low byte is written, the other seven are left zero.
u64_le_truncated(v) == [k \in 1 .. 8 |-> IF k = 1 THEN v % 256 ELSE 0]

\* Serializer.u64: 8 bytes, little-endian (BCS).
u64_le(v) == [k \in 1 .. 8 |-> ShiftRight8(v, k - 1) % 256]

\* create_bcs_message_for_fomc: u64 abs_bps followed by one bool byte.
create_bcs_message_for_fomc(abs_bps, is_increase) ==
    u64_le(abs_bps) \o << IF is_increase THEN 1 ELSE 0 >>

\* The rate changes signed in the model, and their canonical messages.
RateChanges == {25, 0 - 25, 0 - 50}
Abs(x) == IF x < 0 THEN 0 - x ELSE x
MessageOf(rate_change) ==
    create_bcs_message_for_fomc(Abs(rate_change), rate_change > 0)
Messages == { MessageOf(r) : r \in RateChanges }

\* Every message hashes to the identity point.
hash_to_G2_identity(bcs_message) == 0

\* hash_to_G2(message, DST, sha256) as the scalar of the resulting G2 point:
\* a non-zero scalar, collision-free on the messages of the model (+25, -25
\* and -50 basis points).
hash_to_G2(bcs_message) ==
    1 + ((2 * (bcs_message[1] \div 25) + bcs_message[9]) % (curve_order - 1))

\* ------------------------------------------------------------ BLS signing

\* multiply(point, scalar) and add(p, q) on points given by their scalars.
multiply(point, scalar) == (point * scalar) % curve_order
add(p, q) == (p + q) % curve_order

\* sign_bcs_message: bls.Sign(sk, m); for sk = 0 py_ecc rejects the key and
\* the except branch computes multiply(H, sk) by hand -- the same point.
sign_bcs_message(private_key, bcs_message) ==
    multiply(hash_to_G2(bcs_message), private_key)

\* verify_signature: bls.Verify(pk, m, sig).  py_ecc's KeyValidate rejects
\* the identity public key; any exception is turned into False.
verify_signature(public_key, bcs_message, signature) ==
    /\ public_key # 0
    /\ multiply(hash_to_G2(bcs_message), public_key) = signature

\* ---------------------------------------------------- threshold_signing.py

\* The check of t against n left out.
ThresholdConfigValidNoUpper(n, t) == ~(n < 1) /\ ~(t < 1)

\* ThresholdConfig.__init__: the three checks that guard construction.
ThresholdConfigValid(n, t) == ~(n < 1) /\ ~(t < 1) /\ ~(t > n)

\* get_threshold_config() at module import: _config = ThresholdConfig().
DefaultConfig == [n |-> DEFAULT_N, t |-> DEFAULT_T]

RECURSIVE ReconstructTerms(_, _, _)
\* The loop of lines 191-197 over test_indices[1..k].
ReconstructTerms(private_keys, test_indices, k) ==
    IF k = 0 THEN 0
    ELSE LET i     == test_indices[k]
             coeff == lagrange_coefficient(i, test_indices)
             term  == (coeff * private_keys[i]) % curve_order
         IN  (ReconstructTerms(private_keys, test_indices, k - 1) + term)
                 % curve_order

\* Lagrange interpolation at 0 of the shares of test_indices.
reconstruct(private_keys, test_indices) ==
    ReconstructTerms(private_keys, test_indices, Len(test_indices))

\* The shares, public shares and group key generate_threshold_keys derives
\* from one drawn polynomial, with the outcome of its reconstruction check
\* over the first t ids (which the code only prints).
KeysFrom(n, t, polynomial) ==
    LET master_secret == polynomial[1]
        private_keys  == [id \in 1 .. n |-> evaluate_polynomial(polynomial, id)]
    IN  [ generated        |-> TRUE,
          n                |-> n,
          t                |-> t,
          polynomial       |-> polynomial,
          master_secret    |-> master_secret,
          private_keys     |-> private_keys,
          public_keys      |-> [id \in 1 .. n |-> multiply(1, private_keys[id])],
          group_public_key |-> multiply(1, master_secret),
          reconstruction_success |->
              (reconstruct(private_keys, SortedSeq(1 .. t)) = master_secret) ]

NoKeys ==
    [ generated |-> FALSE, n |-> 0, t |-> 0, polynomial |-> <<>>,
      master_secret |-> 0, private_keys |-> <<>>, public_keys |-> <<>>,
      group_public_key |-> 0, reconstruction_success |-> FALSE ]

\* A dict of partial signatures is a function from server ids to signatures;
\* the empty dict is <<>>.  Raised(r) tells a raised call from a returned one:
\* a call returns <<value>> or raises, which is <<>>.
Raised(r) == r = <<>>

\* generate_threshold_signatures: t is the threshold read from the global
\* configuration when the call is made.
generate_threshold_signatures(private_keys, bcs_message, indices, public_keys, t) ==
    IF Len(indices) < t THEN <<>>
    ELSE LET signing_indices == Take(indices, t)
             ids  == SeqToSet(signing_indices)
             sigs == [id \in ids |-> sign_bcs_message(private_keys[id], bcs_message)]
         IN  IF \E id \in ids :
                    ~verify_signature(public_keys[id], bcs_message, sigs[id])
             THEN <<>>
             ELSE << sigs >>

\* The partial signatures are added up without their Lagrange coefficients.
LagrangeCombineUnscaled(partial_signatures) ==
    LET signing_indices == SortedSeq(DOMAIN partial_signatures)
        RECURSIVE Sum(_)
        Sum(k) ==
            LET server_id == signing_indices[k]
            IN  IF k = 1 THEN partial_signatures[server_id]
                ELSE add(Sum(k - 1), partial_signatures[server_id])
    IN  Sum(Len(signing_indices))

\* Lines 341-375 of combine_threshold_signatures: scale every partial by its
\* Lagrange coefficient over the ids present and add the points up.
LagrangeCombine(partial_signatures) ==
    LET signing_indices == SortedSeq(DOMAIN partial_signatures)
        RECURSIVE Sum(_)
        Sum(k) ==
            LET server_id == signing_indices[k]
                scaled == multiply(partial_signatures[server_id],
                                   lagrange_coefficient(server_id, signing_indices))
            IN  IF k = 1 THEN scaled ELSE add(Sum(k - 1), scaled)
    IN  Sum(Len(signing_indices))

\* The quorum check dropped: a dict of any size is combined.
combine_threshold_signatures_unchecked(partial_signatures, t) ==
    IF DOMAIN partial_signatures = {} THEN <<>>
    ELSE << LagrangeCombine(partial_signatures) >>

\* combine_threshold_signatures: t is the threshold read from the global
\* configuration when the call is made.
combine_threshold_signatures(partial_signatures, t) ==
    IF Cardinality(DOMAIN partial_signatures) < t THEN <<>>
    ELSE IF DOMAIN partial_signatures = {} THEN <<>>
    ELSE << LagrangeCombine(partial_signatures) >>

\* ------------------------------------------------------------------ state

VARIABLES
    pc,                  \* where the driving script is
    config,              \* threshold_signing._config
    rand_draws,          \* calls of secrets.randbelow made so far
    keys,                \* what generate_threshold_keys returned
    partial_signatures,  \* what generate_threshold_signatures returned
    bcs_message,         \* the message the partial signatures are over
    combined,            \* what combine_threshold_signatures returned
    last,                \* the latest library call and its outcome
    servers,             \* client: the server_id answering at each listed server
    fate,                \* client: how each /extract call is going to end
    settled,             \* client: the calls the collection loop has received
    rate_changes,        \* client: rate_changes dict, keyed by reported id
    order,               \* client: insertion order of the keys of the dicts
    consensus_rate,      \* client: what call_servers_for_extraction returned
    ledger,              \* the transactions submitted to the ledger
    late,                \* client: results of calls completing after the loop
    first_run            \* client: what an earlier attestation collected

libVars == << pc, config, rand_draws, keys, partial_signatures, bcs_message,
              combined, last >>

clientVars == << servers, fate, settled, rate_changes, order, consensus_rate,
                 ledger, late, first_run >>

\* The coordinator's state while no attestation is running.
ClientIdle ==
    /\ servers = <<>>
    /\ fate = <<>>
    /\ settled = {}
    /\ rate_changes = <<>>
    /\ order = <<>>
    /\ consensus_rate = 0
    /\ ledger = <<>>
    /\ late = <<>>
    /\ first_run = <<>>

NoSig == [sig |-> <<>>, ids |-> {}, msg |-> <<>>]

Call(op, raised, n, t, ids, msg, valid) ==
    [op |-> op, raised |-> raised, n |-> n, t |-> t, ids |-> ids, msg |-> msg,
     valid |-> valid]

NoCall == Call("none", FALSE, 0, 0, {}, <<>>, FALSE)

\* Arguments set_threshold_config is called with, invalid ones included.
ConfigArgs == (0 - 1) .. MaxN

LibInit ==
    /\ pc = "main"
    /\ config = DefaultConfig
    /\ rand_draws = 0
    /\ keys = NoKeys
    /\ partial_signatures = <<>>
    /\ bcs_message = <<>>
    /\ combined = NoSig
    /\ last = NoCall

\* The new configuration is assigned before it is validated.
set_threshold_config_assign_first(n, t) ==
    /\ config' = [n |-> n, t |-> t]
    /\ last' = Call("set_threshold_config", ~ThresholdConfigValid(n, t), n, t,
                    {}, <<>>, FALSE)

\* set_threshold_config(n, t): ThresholdConfig.create_config raises before
\* _config is assigned, or the new configuration replaces the old one.
set_threshold_config(n, t) ==
    /\ config' = IF ThresholdConfigValid(n, t) THEN [n |-> n, t |-> t] ELSE config
    /\ last' = Call("set_threshold_config", ~ThresholdConfigValid(n, t), n, t,
                    {}, <<>>, FALSE)

\* main(n, t), line 426: the configuration is set first; a ValueError ends
\* the script.
MainSetThresholdConfig ==
    /\ pc = "main"
    /\ \E n \in ConfigArgs, t \in ConfigArgs :
          /\ set_threshold_config(n, t)
          /\ pc' = IF ThresholdConfigValid(n, t) THEN "configured" ELSE "exit"
    /\ UNCHANGED << rand_draws, keys, partial_signatures, bcs_message, combined >>
    /\ UNCHANGED clientVars

\* set_threshold_config called again once a key set exists (the
\* programmatic usage of the module docstring, obtain_threshold_keys); the
\* caller handles the ValueError.
LibSetThresholdConfig ==
    /\ pc = "keys"
    /\ last.op # "set_threshold_config"
    /\ \E n \in ConfigArgs, t \in ConfigArgs : set_threshold_config(n, t)
    /\ UNCHANGED << pc, rand_draws, keys, partial_signatures, bcs_message, combined >>
    /\ UNCHANGED clientVars

\* generate_threshold_keys under the current configuration: one draw for the
\* master secret and t - 1 draws for the coefficients.
GenerateThresholdKeys ==
    /\ pc \in {"main", "configured"}
    /\ \E master_secret \in Field :
          \E polynomial \in generate_polynomial(config.t - 1, master_secret) :
              keys' = KeysFrom(config.n, config.t, polynomial)
    /\ rand_draws' = rand_draws + config.t
    /\ pc' = "keys"
    /\ last' = Call("generate_threshold_keys", FALSE, config.n, config.t,
                    {}, <<>>, FALSE)
    /\ UNCHANGED << config, partial_signatures, bcs_message, combined >>
    /\ UNCHANGED clientVars

\* generate_threshold_signatures(private_keys, m, indices, public_keys) for
\* an ascending list of participant ids and a message of the model.
GenerateThresholdSignatures ==
    /\ pc = "keys"
    /\ \E S \in SUBSET (1 .. keys.n), m \in Messages :
          LET r == generate_threshold_signatures(keys.private_keys, m,
                       SortedSeq(S), keys.public_keys, config.t)
          IN  /\ last' = Call("generate_threshold_signatures", Raised(r),
                              config.n, config.t, S, m, FALSE)
              /\ IF Raised(r)
                 THEN /\ pc' = "exit"
                      /\ UNCHANGED << partial_signatures, bcs_message >>
                 ELSE /\ pc' = "signed"
                      /\ partial_signatures' = r[1]
                      /\ bcs_message' = m
    /\ UNCHANGED << config, rand_draws, keys, combined >>
    /\ UNCHANGED clientVars

\* combine_threshold_signatures on the partial signatures of any of the
\* signers (the whole dict, as main passes it, or fewer entries).
CombineThresholdSignatures ==
    /\ pc = "signed"
    /\ \E ids \in SUBSET (DOMAIN partial_signatures) :
          LET given == [id \in ids |-> partial_signatures[id]]
              r     == combine_threshold_signatures(given, config.t)
          IN  /\ last' = Call("combine_threshold_signatures", Raised(r),
                              config.n, config.t, ids, bcs_message, FALSE)
              /\ IF Raised(r)
                 THEN /\ pc' = "exit"
                      /\ UNCHANGED combined
                 ELSE /\ pc' = "combined"
                      /\ combined' = [sig |-> r, ids |-> ids, msg |-> bcs_message]
    /\ UNCHANGED << config, rand_draws, keys, partial_signatures, bcs_message >>
    /\ UNCHANGED clientVars

\* verify_signature(group_public_key, m2, combined) for any message m2.
VerifySignature ==
    /\ pc = "combined"
    /\ \E m2 \in Messages :
          last' = Call("verify_signature", FALSE, config.n, config.t,
                       combined.ids, m2,
                       verify_signature(keys.group_public_key, m2, combined.sig[1]))
    /\ pc' = "verified"
    /\ UNCHANGED << config, rand_draws, keys, partial_signatures, bcs_message, combined >>
    /\ UNCHANGED clientVars

vars == << libVars, clientVars >>

Init == LibInit /\ ClientIdle

\* One run of the library as main() drives it: configure, generate keys,
\* sign, combine, verify.
Next ==
    \/ MainSetThresholdConfig
    \/ GenerateThresholdKeys
    \/ GenerateThresholdSignatures
    \/ CombineThresholdSignatures
    \/ VerifySignature

Spec == Init /\ [][Next]_vars

\* The same run with set_threshold_config also called after the keys exist.
NextConfig ==
    \/ MainSetThresholdConfig
    \/ LibSetThresholdConfig
    \/ GenerateThresholdKeys
    \/ GenerateThresholdSignatures
    \/ CombineThresholdSignatures
    \/ VerifySignature

SpecConfig == Init /\ [][NextConfig]_vars

\* ---------------------------------------------------------------- client.py

\* self.servers: the entries of the network configuration (four by default).
Servers == 1 .. DEFAULT_N

\* The server_id answering behind each entry of self.servers: its own, or
\* that of an earlier entry when two entries carry the same host and port
\* (FOMC_SERVER_URLS, or the FOMC_HOST / FOMC_PORT overrides).
ServerIdMaps ==
    { m \in [Servers -> Servers] : \A s \in Servers : m[s] <= s /\ m[m[s]] = m[s] }

\* The polynomials behind the key sets the servers are deployed with.
DeployedPolynomials == { <<3, 1, 2>>, <<0, 1, 2>> }

\* An attestation about to start: the default configuration (client.py never
\* calls set_threshold_config), a key set on the servers, and for each call
\* of the fan-out whether it is going to succeed.
ClientInit ==
    /\ pc = "client"
    /\ config = DefaultConfig
    /\ rand_draws = 0
    /\ \E polynomial \in DeployedPolynomials :
          keys = KeysFrom(DEFAULT_N, DEFAULT_T, polynomial)
    /\ partial_signatures = <<>>
    /\ bcs_message = <<>>
    /\ combined = NoSig
    /\ last = NoCall
    /\ servers \in ServerIdMaps
    /\ fate \in [Servers -> {"ok", "fail"}]
    /\ settled = {}
    /\ rate_changes = <<>>
    /\ order = <<>>
    /\ consensus_rate = 0
    /\ ledger = <<>>
    /\ late = <<>>
    /\ first_run = <<>>

\* check_server_health: True iff at least t servers answered healthy.
check_server_health(healthy_servers, t) == healthy_servers >= t

\* FOMCServer.sign_rate_change on the server holding share server_id.
sign_rate_change(server_id, rate_change) ==
    sign_bcs_message(keys.private_keys[server_id], MessageOf(rate_change))

\* What the POST /extract behind entry s can come back with: a 200 reply
\* with the server's id, the rate it extracted and its partial signature,
\* a non-200 reply, or an exception (connection error, timeout).
Replies(s) ==
    IF fate[s] = "ok"
    THEN { [raised |-> FALSE, status |-> 200, server_id |-> servers[s],
            rate_change |-> r, signature |-> sign_rate_change(servers[s], r)] :
              r \in RateChanges }
    ELSE { [raised |-> FALSE, status |-> c, server_id |-> servers[s],
            rate_change |-> 0, signature |-> 0] : c \in {400, 404, 500} }
         \cup { [raised |-> TRUE, status |-> 0, server_id |-> servers[s],
                 rate_change |-> 0, signature |-> 0] }

\* Every reply that is not an exception is taken as a success.
call_single_server_any_status(reply) ==
    IF ~reply.raised
    THEN << [server_id |-> reply.server_id, rate_change |-> reply.rate_change,
             signature |-> reply.signature] >>
    ELSE <<>>

\* call_single_server: the dict of a 200 reply, None (<<>>) otherwise.
call_single_server(reply) ==
    IF ~reply.raised /\ reply.status = 200
    THEN << [server_id |-> reply.server_id, rate_change |-> reply.rate_change,
             signature |-> reply.signature] >>
    ELSE <<>>

\* d[k] = v on a dict.
Store(d, k, v) == [x \in (DOMAIN d) \cup {k} |-> IF x = k THEN v ELSE d[x]]

\* The loop waits for one response more than the threshold.
quorum_reached_late(sigs, t) == Cardinality(DOMAIN sigs) > t

\* Line 193: len(partial_signatures) >= t ends the collection loop.
quorum_reached(sigs, t) == Cardinality(DOMAIN sigs) >= t

\* The check after the loop lets one missing response pass.
insufficient_responses_lenient(sigs, t) == Cardinality(DOMAIN sigs) < t - 1

\* Line 202: len(partial_signatures) < t raises RuntimeError.
insufficient_responses(sigs, t) == Cardinality(DOMAIN sigs) < t

\* The value collected first is taken, whatever its frequency.
most_common_first(vals) == vals[1]

\* Counter(values).most_common(1)[0][0]: the most frequent value, the one
\* met first in the dict's insertion order among equally frequent ones.
most_common(vals) ==
    LET Count(v) == Cardinality({ i \in 1 .. Len(vals) : vals[i] = v })
        best == CHOOSE i \in 1 .. Len(vals) :
                    /\ \A j \in 1 .. Len(vals) : Count(vals[j]) <= Count(vals[i])
                    /\ \A j \in 1 .. (i - 1) : Count(vals[j]) < Count(vals[i])
    IN  vals[best]

\* Lines 205-216: the consensus rate of the collected values.
consensus(rates, ord) ==
    LET vals == [i \in 1 .. Len(ord) |-> rates[ord[i]]]
        unique_rates == { rates[k] : k \in DOMAIN rates }
    IN  IF Cardinality(unique_rates) > 1
        THEN most_common(vals)
        ELSE CHOOSE r \in unique_rates : TRUE

\* run_threshold_client, step 1: the health check; fewer than t healthy
\* servers end the run with return 1 before any /extract call.
CheckServerHealth ==
    /\ pc = "client"
    /\ \E healthy \in SUBSET Servers :
          LET ok == check_server_health(Cardinality(healthy), config.t)
          IN  /\ pc' = IF ok THEN "calling" ELSE "return_1"
              /\ last' = Call("check_server_health", FALSE, Cardinality(Servers),
                              config.t, {}, <<>>, ok)
    /\ UNCHANGED << config, rand_draws, keys, partial_signatures, bcs_message,
                    combined >>
    /\ UNCHANGED clientVars

\* One iteration of the as_completed loop of call_servers_for_extraction:
\* the call to entry s completes and its result is processed.  When the loop
\* ends (break on quorum, or no call left) the function raises RuntimeError,
\* which run_threshold_client turns into return 1, or returns the consensus
\* rate and the collected partial signatures.
ServerResponds ==
    /\ pc = "calling"
    /\ \E s \in Servers \ settled : \E reply \in Replies(s) :
          LET result == call_single_server(reply)
              got    == result # <<>>
              sigs   == IF got
                        THEN Store(partial_signatures, result[1].server_id,
                                   result[1].signature)
                        ELSE partial_signatures
              rates  == IF got
                        THEN Store(rate_changes, result[1].server_id,
                                   result[1].rate_change)
                        ELSE rate_changes
              ord    == IF got /\ result[1].server_id \notin SeqToSet(order)
                        THEN Append(order, result[1].server_id)
                        ELSE order
              ended  == \/ got /\ quorum_reached(sigs, config.t)
                        \/ settled \cup {s} = Servers
          IN  /\ settled' = settled \cup {s}
              /\ partial_signatures' = sigs
              /\ rate_changes' = rates
              /\ order' = ord
              /\ IF ~ended
                 THEN /\ pc' = "calling"
                      /\ UNCHANGED << consensus_rate, last >>
                 ELSE IF insufficient_responses(sigs, config.t)
                 THEN /\ pc' = "return_1"
                      /\ last' = Call("call_servers_for_extraction", TRUE,
                                      Cardinality(Servers), config.t,
                                      DOMAIN sigs, <<>>, FALSE)
                      /\ UNCHANGED consensus_rate
                 ELSE /\ pc' = "extracted"
                      /\ consensus_rate' = consensus(rates, ord)
                      /\ last' = Call("call_servers_for_extraction", FALSE,
                                      Cardinality(Servers), config.t,
                                      DOMAIN sigs, <<>>, FALSE)
    /\ UNCHANGED << config, rand_draws, keys, bcs_message, combined, servers,
                    fate, ledger, late, first_run >>

\* run_threshold_client, step 3: combine_partial_signatures takes the t
\* lowest collected ids and calls combine_threshold_signatures.
CombinePartialSignatures ==
    /\ pc = "extracted"
    /\ LET server_ids    == Take(SortedSeq(DOMAIN partial_signatures), config.t)
           selected_sigs == [sid \in SeqToSet(server_ids) |-> partial_signatures[sid]]
           r             == combine_threshold_signatures(selected_sigs, config.t)
       IN  IF Raised(r)
           THEN /\ pc' = "return_1"
                /\ UNCHANGED combined
           ELSE /\ pc' = "client_combined"
                /\ combined' = [sig |-> r, ids |-> SeqToSet(server_ids),
                                msg |-> MessageOf(consensus_rate)]
    /\ UNCHANGED << config, rand_draws, keys, partial_signatures, bcs_message,
                    last >>
    /\ UNCHANGED clientVars

\* run_threshold_client, step 4a: set_bls_public_key_threshold submits the
\* group public key to the contract.
SetBlsPublicKeyThreshold ==
    /\ pc = "client_combined"
    /\ ledger' = Append(ledger, [function |-> "set_bls_public_key",
                                 public_key |-> keys.group_public_key])
    /\ pc' = "key_set"
    /\ UNCHANGED << config, rand_draws, keys, partial_signatures, bcs_message,
                    combined, last, servers, fate, settled, rate_changes, order,
                    consensus_rate, late, first_run >>

\* run_threshold_client, step 4b: call_move_real_swap_threshold submits
\* the rate movement with the combined signature.
CallMoveRealSwapThreshold ==
    /\ pc = "key_set"
    /\ ledger' = Append(ledger,
                        [function |-> "record_interest_rate_movement_v5",
                         abs_bps |-> Abs(consensus_rate),
                         is_increase |-> consensus_rate > 0,
                         signature |-> combined.sig[1]])
    /\ pc' = "return_0"
    /\ UNCHANGED << config, rand_draws, keys, partial_signatures, bcs_message,
                    combined, last, servers, fate, settled, rate_changes, order,
                    consensus_rate, late, first_run >>

ClientNext ==
    \/ CheckServerHealth
    \/ ServerResponds
    \/ CombinePartialSignatures
    \/ SetBlsPublicKeyThreshold
    \/ CallMoveRealSwapThreshold

\* Every /extract call completes (a reply, an error, or the 30 s timeout)
\* and the collection loop, suspended on as_completed, then runs.
SpecClient == ClientInit /\ [][ClientNext]_vars /\ WF_vars(ServerResponds)

\* ---------------------------------------------------------- multi_web_api.py

RECURSIVE lstrip(_)
\* Leading blanks removed (texts are sequences of characters).
lstrip(text) ==
    IF text # <<>> /\ Head(text) = " " THEN lstrip(Tail(text)) ELSE text

RECURSIVE rstrip(_)
\* Trailing blanks removed.
rstrip(text) ==
    IF text # <<>> /\ text[Len(text)] = " "
    THEN rstrip(SubSeq(text, 1, Len(text) - 1))
    ELSE text

\* str.strip()
strip(text) == rstrip(lstrip(text))

\* The texts posted to /extract: empty, blank, and statements with and
\* without surrounding blanks.
Texts == { <<>>, << " " >>, << " ", " " >>, << "c", "u", "t" >>,
           << " ", "c", "u", "t", " " >> }

\* The empty-text check left out: every text goes to the extractor.
extract_rate_and_sign_unchecked(server_id, text, extracted, private_key) ==
    IF extracted = <<>>
    THEN [status |-> 404, extractor_called |-> TRUE, body |-> <<>>]
    ELSE IF private_key = <<>>
    THEN [status |-> 500, extractor_called |-> TRUE, body |-> <<>>]
    ELSE [status |-> 200, extractor_called |-> TRUE,
          body |-> << [rate_change |-> extracted[1],
                       bls_threshold_signature |->
                           sign_bcs_message(private_key[1], MessageOf(extracted[1])),
                       server_id |-> server_id,
                       abs_bps |-> Abs(extracted[1]),
                       is_increase |-> extracted[1] > 0] >>]

\* POST /extract on server server_id.  `extracted` is what
\* extract_rate_change_from_text_llm returns for the text if it is called
\* (<<>> for None, <<rate>> otherwise; for a URL the article text is fetched
\* first), `private_key` the share in BLS_PRIVATE_KEY (<<>> when it is not
\* set, which makes sign_rate_change raise).  The response is the HTTP
\* status, whether the extractor was called, and the RateResponse body.
extract_rate_and_sign(server_id, text, extracted, private_key) ==
    IF strip(text) = <<>>
    THEN [status |-> 400, extractor_called |-> FALSE, body |-> <<>>]
    ELSE IF extracted = <<>>
    THEN [status |-> 404, extractor_called |-> TRUE, body |-> <<>>]
    ELSE IF private_key = <<>>
    THEN [status |-> 500, extractor_called |-> TRUE, body |-> <<>>]
    ELSE [status |-> 200, extractor_called |-> TRUE,
          body |-> << [rate_change |-> extracted[1],
                       bls_threshold_signature |->
                           sign_bcs_message(private_key[1], MessageOf(extracted[1])),
                       server_id |-> server_id,
                       abs_bps |-> Abs(extracted[1]),
                       is_increase |-> extracted[1] > 0] >>]

\* The servers hold the shares of a deployed key set and wait for requests.
ServerInit ==
    /\ pc = "serving"
    /\ config = DefaultConfig
    /\ rand_draws = 0
    /\ \E polynomial \in DeployedPolynomials :
          keys = KeysFrom(DEFAULT_N, DEFAULT_T, polynomial)
    /\ partial_signatures = <<>>
    /\ bcs_message = <<>>
    /\ combined = NoSig
    /\ last = NoCall
    /\ ClientIdle

\* One request to /extract of one server; `last` keeps the request, what
\* the extractor and the environment of the server hold, and the response.
HandleExtract ==
    /\ pc = "serving"
    /\ \E server_id \in Servers, text \in Texts,
          extracted \in { <<>> } \cup { << r >> : r \in RateChanges },
          key_set \in BOOLEAN :
          LET private_key == IF key_set THEN << keys.private_keys[server_id] >>
                             ELSE <<>>
          IN  last' = [op |-> "extract_rate_and_sign", server_id |-> server_id,
                       text |-> text, extracted |-> extracted,
                       private_key |-> private_key,
                       response |-> extract_rate_and_sign(server_id, text,
                                        extracted, private_key)]
    /\ UNCHANGED << pc, config, rand_draws, keys, partial_signatures,
                    bcs_message, combined >>
    /\ UNCHANGED clientVars

ServerNext == HandleExtract

SpecServer == ServerInit /\ [][ServerNext]_vars

\* ------------------------------------------- threshold_integration_supra.py

\* main() has parsed its arguments and, when --n / --t were given, called
\* set_threshold_config; the ledger holds no group public key yet, or the
\* one of a key set registered by an earlier run.
SupraInit ==
    /\ pc = "supra"
    /\ config \in { DefaultConfig } \cup
                  { [n |-> n, t |-> t] : n \in 1 .. MaxN, t \in 1 .. MaxN }
    /\ ThresholdConfigValid(config.n, config.t)
    /\ rand_draws = 0
    /\ keys = NoKeys
    /\ partial_signatures = <<>>
    /\ bcs_message = <<>>
    /\ combined = NoSig
    /\ last = NoCall
    /\ servers = <<>>
    /\ fate = <<>>
    /\ settled = {}
    /\ rate_changes = <<>>
    /\ order = <<>>
    /\ consensus_rate = 0
    /\ ledger \in { <<>> } \cup
           { << [function |-> "set_bls_public_key",
                 public_key |-> KeysFrom(DEFAULT_N, DEFAULT_T, p).group_public_key] >> :
                 p \in DeployedPolynomials }
    /\ late = <<>>
    /\ first_run = <<>>

\* obtain_threshold_keys: with --fresh-keys a new key set under the current
\* configuration; otherwise the key set of keys_dir, whose (n, t) replaces
\* the configuration, or RuntimeError (return 1) when the files are missing.
SupraObtainThresholdKeys ==
    /\ pc = "supra"
    /\ \/ /\ \E master_secret \in Field :
                \E polynomial \in generate_polynomial(config.t - 1, master_secret) :
                    keys' = KeysFrom(config.n, config.t, polynomial)
          /\ rand_draws' = rand_draws + config.t
          /\ pc' = "supra_keys"
          /\ last' = Call("generate_threshold_keys", FALSE, config.n, config.t,
                          {}, <<>>, FALSE)
          /\ UNCHANGED config
       \/ /\ \E polynomial \in DeployedPolynomials :
                keys' = KeysFrom(DEFAULT_N, DEFAULT_T, polynomial)
          /\ config' = [n |-> DEFAULT_N, t |-> DEFAULT_T]
          /\ pc' = "supra_keys"
          /\ last' = Call("load_threshold_keys_from_files", FALSE, DEFAULT_N,
                          DEFAULT_T, {}, <<>>, FALSE)
          /\ UNCHANGED rand_draws
       \/ /\ pc' = "return_1"
          /\ last' = Call("load_threshold_keys_from_files", TRUE, config.n,
                          config.t, {}, <<>>, FALSE)
          /\ UNCHANGED << config, rand_draws, keys >>
    /\ UNCHANGED << partial_signatures, bcs_message, combined >>
    /\ UNCHANGED clientVars

\* Steps 2 to 6 of run_threshold_integration_supra: detect the rate change
\* (None: return 1), build the message, let the first t servers sign
\* (generate_threshold_signatures; its ValueError is not caught by main),
\* combine, and verify locally -- the verdict is only printed.
SupraSignAndCombine ==
    /\ pc = "supra_keys"
    /\ \/ /\ pc' = "return_1"
          /\ last' = Call("detect_basis_points", FALSE, config.n, config.t,
                          {}, <<>>, FALSE)
          /\ UNCHANGED << partial_signatures, bcs_message, combined >>
       \/ \E bps \in RateChanges :
             LET m == MessageOf(bps)
                 participating_servers == Take(SortedSeq(1 .. keys.n), config.t)
                 r == generate_threshold_signatures(keys.private_keys, m,
                          participating_servers, keys.public_keys, config.t)
                 c == IF Raised(r) THEN <<>>
                      ELSE combine_threshold_signatures(r[1], config.t)
             IN  IF Raised(r) \/ Raised(c)
                 THEN /\ pc' = "crash"
                      /\ last' = Call("generate_threshold_signatures", TRUE,
                                      config.n, config.t,
                                      SeqToSet(participating_servers), m, FALSE)
                      /\ UNCHANGED << partial_signatures, bcs_message, combined >>
                 ELSE /\ pc' = "supra_signed"
                      /\ partial_signatures' = r[1]
                      /\ bcs_message' = m
                      /\ combined' = [sig |-> c, ids |-> DOMAIN r[1], msg |-> m]
                      /\ last' = Call("verify_signature", FALSE, config.n,
                                      config.t, DOMAIN r[1], m,
                                      verify_signature(keys.group_public_key, m, c[1]))
    /\ UNCHANGED << config, rand_draws, keys >>
    /\ UNCHANGED clientVars

\* Step 7a: unless skip_set_key (the default of main), set_bls_public_key_cli
\* registers the group public key; a failing CLI call ends the run.
SupraSetBlsPublicKey ==
    /\ pc = "supra_signed"
    /\ \/ /\ pc' = "supra_key_step"
          /\ UNCHANGED ledger
       \/ /\ pc' = "supra_key_step"
          /\ ledger' = Append(ledger, [function |-> "set_bls_public_key",
                                       public_key |-> keys.group_public_key])
       \/ /\ pc' = "return_1"
          /\ UNCHANGED ledger
    /\ UNCHANGED << config, rand_draws, keys, partial_signatures, bcs_message,
                    combined, last, servers, fate, settled, rate_changes, order,
                    consensus_rate, late, first_run >>

\* Step 7b: submit_interest_rate_transaction; a failing CLI call ends the
\* run with return 1.
SupraSubmitInterestRateTransaction ==
    /\ pc = "supra_key_step"
    /\ \/ /\ pc' = "return_0"
          /\ ledger' = Append(ledger,
                 [function |-> "record_interest_rate_movement_dexlyn",
                  abs_bps |-> bcs_message[1],
                  is_increase |-> bcs_message[9] = 1,
                  signature |-> combined.sig[1]])
       \/ /\ pc' = "return_1"
          /\ UNCHANGED ledger
    /\ UNCHANGED << config, rand_draws, keys, partial_signatures, bcs_message,
                    combined, last, servers, fate, settled, rate_changes, order,
                    consensus_rate, late, first_run >>

SupraNext ==
    \/ SupraObtainThresholdKeys
    \/ SupraSignAndCombine
    \/ SupraSetBlsPublicKey
    \/ SupraSubmitInterestRateTransaction

SpecSupra == SupraInit /\ [][SupraNext]_vars

\* ------------------------------------- create_bcs_message_for_fomc, alone

\* Largest magnitude of the contiguous range the encoding is applied to.
MaxBps == 300

\* The magnitudes the encoding is applied to: every value up to MaxBps and
\* values around the byte boundaries, up to the largest integer TLC holds.
Magnitudes == (0 .. MaxBps) \cup {65535, 65536, 16777215, 16777216, 2147483647}

\* No message has been built yet.
BcsInit ==
    /\ pc = "bcs"
    /\ config = DefaultConfig
    /\ rand_draws = 0
    /\ keys = NoKeys
    /\ partial_signatures = <<>>
    /\ bcs_message = <<>>
    /\ combined = NoSig
    /\ last = NoCall
    /\ ClientIdle

\* create_bcs_message_for_fomc(abs_bps, is_increase) for any magnitude and
\* direction; `last` keeps the arguments of the call.
CreateBcsMessageForFomc ==
    /\ pc = "bcs"
    /\ \E abs_bps \in Magnitudes, is_increase \in BOOLEAN :
          /\ bcs_message' = create_bcs_message_for_fomc(abs_bps, is_increase)
          /\ last' = [op |-> "create_bcs_message_for_fomc",
                      abs_bps |-> abs_bps, is_increase |-> is_increase]
    /\ UNCHANGED << pc, config, rand_draws, keys, partial_signatures, combined >>
    /\ UNCHANGED clientVars

BcsNext == CreateBcsMessageForFomc

SpecBcs == BcsInit /\ [][BcsNext]_vars

\* ============================================================== chat.py
\* chat.extract(article_text, messages): the conversation with the language
\* model, one action per model call.  The state of the call is kept in
\* `last`: the article text, the number of ollama.chat calls made so far,
\* the answers received, and the returned value once extract has returned.

\* Python None and returned values: None is <<>>, a value v is << v >>.
None == <<>>

\* JSON values that can stand under a key of the final answer.
JsonInt(i) == [type |-> "int", num |-> i, str |-> ""]
JsonStr(s) == [type |-> "str", num |-> 0, str |-> s]

\* The final answer is a sequence of tokens: braces, free text, and
\* "key": value members (separators are left out).
LBrace == [kind |-> "{", key |-> "", value |-> JsonStr("")]
RBrace == [kind |-> "}", key |-> "", value |-> JsonStr("")]
Text == [kind |-> "text", key |-> "", value |-> JsonStr("")]
Member(k, v) == [kind |-> "member", key |-> k, value |-> v]

\* Longest final answer, in tokens.
MaxTokens == 4

Tokens ==
    { LBrace, RBrace, Text,
      Member("direction", JsonStr("increase")),
      Member("direction", JsonStr("decrease")),
      Member("direction", JsonStr("maintain")),
      Member("basis_points", JsonInt(25)),
      Member("basis_points", JsonStr("a quarter point")) }

FinalAnswers == UNION { [1..k -> Tokens] : k \in 0..MaxTokens }

\* The article texts: None, the empty string, and a statement.
Articles == { None, << "" >>, << "statement" >> }

\* The first answers of the model, as sequences of characters.
FirstAnswers ==
    { << "Y", "e", "s" >>, << "N", "o" >>, << "n", "o" >>, << "N", "O", "." >>,
      << " ", "N", "o", " " >>,
      << "Y", "e", "s", ",", " ", "a", "n", "n", "o", "u", "n", "c", "e", "d" >> }

\* str.lower() on the characters that occur.
lower_char(c) ==
    CASE c = "Y" -> "y" [] c = "N" -> "n" [] c = "O" -> "o" [] OTHER -> c

lower(s) == [i \in 1..Len(s) |-> lower_char(s[i])]

\* 'no' in s
contains_no(s) == \E i \in 1..(Len(s) - 1) : s[i] = "n" /\ s[i + 1] = "o"

\* str.find / str.rfind of a token: 0-based index, -1 when absent.
find(s, tok) ==
    IF \E i \in 1..Len(s) : s[i] = tok
    THEN (CHOOSE i \in 1..Len(s) :
              s[i] = tok /\ \A j \in 1..(i - 1) : s[j] # tok) - 1
    ELSE 0 - 1

rfind(s, tok) ==
    IF \E i \in 1..Len(s) : s[i] = tok
    THEN (CHOOSE i \in 1..Len(s) :
              s[i] = tok /\ \A j \in (i + 1)..Len(s) : s[j] # tok) - 1
    ELSE 0 - 1

\* s[start:stop] with Python's handling of negative and out-of-range indices.
slice(s, start, stop) ==
    LET norm(i) == IF i < 0 THEN (IF Len(s) + i < 0 THEN 0 ELSE Len(s) + i)
                   ELSE IF i > Len(s) THEN Len(s) ELSE i
        lo == norm(start)
        hi == norm(stop)
    IN  IF lo >= hi THEN <<>> ELSE SubSeq(s, lo + 1, hi)

\* json.loads: << members >> for an object, None for a JSONDecodeError.
json_loads(json_str) ==
    IF /\ Len(json_str) >= 2
       /\ json_str[1] = LBrace
       /\ json_str[Len(json_str)] = RBrace
       /\ \A i \in 2..(Len(json_str) - 1) : json_str[i].kind = "member"
    THEN << SubSeq(json_str, 2, Len(json_str) - 1) >>
    ELSE None

\* dict.get(key) on the parsed object: the last member with the key wins,
\* None when the key is absent.
get(data, key) ==
    IF \E i \in 1..Len(data) : data[i].key = key
    THEN << data[CHOOSE i \in 1..Len(data) :
                     data[i].key = key
                     /\ \A j \in (i + 1)..Len(data) : data[j].key # key].value >>
    ELSE None

\* The try block of extract: the JSON part of the answer is cut out and
\* parsed, and basis_points is signed by the direction.  -basis_points
\* raises TypeError on None and on a string, which is caught.
parse_final_answer(assistant_response) ==
    LET json_str == slice(assistant_response, find(assistant_response, LBrace),
                          rfind(assistant_response, RBrace) + 1)
        data == json_loads(json_str)
        direction == get(data[1], "direction")
        basis_points == get(data[1], "basis_points")
    IN  IF data = None THEN None
        ELSE IF direction = << JsonStr("decrease") >>
        THEN (IF basis_points # None /\ basis_points[1].type = "int"
              THEN << JsonInt(0 - basis_points[1].num) >>
              ELSE None)
        ELSE IF direction = << JsonStr("maintain") >>
        THEN << JsonInt(0) >>
        ELSE basis_points

ChatInit ==
    /\ pc = "chat"
    /\ config = DefaultConfig
    /\ rand_draws = 0
    /\ keys = NoKeys
    /\ partial_signatures = <<>>
    /\ bcs_message = <<>>
    /\ combined = NoSig
    /\ \E article_text \in Articles :
          last = [op |-> "extract", article_text |-> article_text,
                  calls |-> 0, first_answer |-> <<>>, final_answer |-> <<>>,
                  result |-> None]
    /\ ClientIdle

ChatUnchanged ==
    /\ UNCHANGED << config, rand_draws, keys, partial_signatures, bcs_message,
                    combined >>
    /\ UNCHANGED clientVars

\* `if not article_text: return None`
ExtractWithoutArticle ==
    /\ pc = "chat"
    /\ last.article_text \in { None, << "" >> }
    /\ pc' = "chat_returned"
    /\ last' = [last EXCEPT !.result = None]
    /\ ChatUnchanged

\* The article is sent; the conversation ends when the stripped answer
\* contains 'no' in lower case.
ExtractSendArticle ==
    /\ pc = "chat"
    /\ last.article_text \notin { None, << "" >> }
    /\ \E response \in FirstAnswers :
          LET assistant_response == strip(response)
          IN  /\ last' = [last EXCEPT !.calls = @ + 1,
                                      !.first_answer = response,
                                      !.result = None]
              /\ pc' = IF contains_no(lower(assistant_response))
                       THEN "chat_returned" ELSE "chat_sentence"
    /\ ChatUnchanged

\* The sentence prompt; the answer is not looked at.
ExtractAskSentence ==
    /\ pc = "chat_sentence"
    /\ pc' = "chat_basis_points"
    /\ last' = [last EXCEPT !.calls = @ + 1]
    /\ ChatUnchanged

\* The basis-points prompt; the answer is parsed and extract returns.
ExtractAskBasisPoints ==
    /\ pc = "chat_basis_points"
    /\ \E response \in FinalAnswers :
          last' = [last EXCEPT !.calls = @ + 1,
                               !.final_answer = response,
                               !.result = parse_final_answer(response)]
    /\ pc' = "chat_returned"
    /\ ChatUnchanged

ChatNext ==
    \/ ExtractWithoutArticle
    \/ ExtractSendArticle
    \/ ExtractAskSentence
    \/ ExtractAskBasisPoints

SpecChat == ChatInit /\ [][ChatNext]_vars

\* ============================================== client.py, late responses
\* The calls still outstanding when the collection loop is left keep running
\* as tasks of the event loop and complete while run_threshold_client goes
\* on; `late` keeps what each of them returned.

\* Every completion is processed as if the loop were still running.
loop_active_always(p) == TRUE

\* Lines 177-196: the body of the as_completed loop runs only until the
\* break or the exhaustion of the tasks.
loop_active(p) == p = "calling"

\* The session is closed when the loop is left (end of the `async with`
\* block): an outstanding request may end in an exception instead of the
\* reply its server would have sent.
LateReplies(s) ==
    Replies(s) \cup { [raised |-> TRUE, status |-> 0, server_id |-> servers[s],
                       rate_change |-> 0, signature |-> 0] }

\* A call completes after call_servers_for_extraction has left the loop.
LateResponse ==
    /\ pc \in {"extracted", "client_combined", "key_set"}
    /\ \E s \in Servers \ (settled \cup DOMAIN late) : \E reply \in LateReplies(s) :
          LET result == call_single_server(reply)
              got    == result # <<>> /\ loop_active(pc)
          IN  /\ late' = Store(late, s, result)
              /\ partial_signatures' =
                    IF got
                    THEN Store(partial_signatures, result[1].server_id,
                               result[1].signature)
                    ELSE partial_signatures
              /\ rate_changes' =
                    IF got
                    THEN Store(rate_changes, result[1].server_id,
                               result[1].rate_change)
                    ELSE rate_changes
              /\ order' =
                    IF got /\ result[1].server_id \notin SeqToSet(order)
                    THEN Append(order, result[1].server_id)
                    ELSE order
    /\ UNCHANGED << pc, config, rand_draws, keys, bcs_message, combined, last,
                    servers, fate, settled, consensus_rate, ledger, first_run >>

LateNext ==
    \/ ClientNext
    \/ LateResponse

SpecLate == ClientInit /\ [][LateNext]_vars /\ WF_vars(ServerResponds)

\* ============================================ client.py, a second attestation
\* run_threshold_client is run twice against the same servers, each of which
\* gives in the second run the outcome it gave in the first; `first_run`
\* keeps what the first run collected and returned.

\* Every collected server reported the value it reported in the first run.
AsBefore ==
    first_run # <<>> =>
        \A id \in (DOMAIN rate_changes) \cap (DOMAIN first_run.rate_changes) :
            rate_changes[id] = first_run.rate_changes[id]

RerunInit ==
    /\ ClientInit
    /\ servers = [s \in Servers |-> s]

\* One iteration of the collection loop, in either run.
ServerRespondsAsBefore == ServerResponds /\ AsBefore'

\* The first run has combined its signature; the attestation is started
\* again, with empty dicts (lines 139-141).
StartSecondRun ==
    /\ pc = "client_combined"
    /\ first_run = <<>>
    /\ first_run' = [rate_changes |-> rate_changes, order |-> order,
                     consensus_rate |-> consensus_rate,
                     ids |-> combined.ids, sig |-> combined.sig]
    /\ pc' = "calling"
    /\ settled' = {}
    /\ partial_signatures' = <<>>
    /\ rate_changes' = <<>>
    /\ order' = <<>>
    /\ consensus_rate' = 0
    /\ combined' = NoSig
    /\ last' = NoCall
    /\ UNCHANGED << config, rand_draws, keys, bcs_message, servers, fate, ledger,
                    late >>

RerunNext ==
    \/ CheckServerHealth
    \/ ServerRespondsAsBefore
    \/ CombinePartialSignatures
    \/ StartSecondRun

SpecRerun == RerunInit /\ [][RerunNext]_vars

\* ================================ threshold_signing.py, the configuration API
\* set_threshold_config, get_n and get_t used as a library: any number of
\* calls, with valid and invalid arguments, in any order.

\* get_n() and get_t(): the fields of the global _config.
get_n == config.n

get_t == config.t

\* set_threshold_config(n, t) called by a program that handles the
\* ValueError and goes on.
SetThresholdConfig ==
    /\ pc = "main"
    /\ \E n \in ConfigArgs, t \in ConfigArgs : set_threshold_config(n, t)
    /\ UNCHANGED << pc, rand_draws, keys, partial_signatures, bcs_message, combined >>
    /\ UNCHANGED clientVars

SetConfigNext == SetThresholdConfig

SpecSetConfig == Init /\ [][SetConfigNext]_vars

\* ===================== threshold_signing.py, combining any number of partials
\* A key set of any valid (n, t) exists; any non-empty set of participants
\* sign one message, each with sign_bcs_message and its own share, and
\* combine_threshold_signatures is called on the dict of all of them.

CombineInit ==
    /\ pc = "keys"
    /\ \E n \in 1 .. MaxN, t \in 1 .. MaxN :
          /\ ThresholdConfigValid(n, t)
          /\ config = [n |-> n, t |-> t]
          /\ rand_draws = t
          /\ last = Call("generate_threshold_keys", FALSE, n, t, {}, <<>>, FALSE)
          /\ \E master_secret \in Field :
                \E polynomial \in generate_polynomial(t - 1, master_secret) :
                    keys = KeysFrom(n, t, polynomial)
    /\ partial_signatures = <<>>
    /\ bcs_message = <<>>
    /\ combined = NoSig
    /\ ClientIdle

CombinePartialsOfAny ==
    /\ pc = "keys"
    /\ \E S \in (SUBSET (1 .. keys.n)) \ { {} }, m \in Messages :
          LET given == [id \in S |-> sign_bcs_message(keys.private_keys[id], m)]
              r     == combine_threshold_signatures(given, config.t)
          IN  /\ partial_signatures' = given
              /\ bcs_message' = m
              /\ last' = Call("combine_threshold_signatures", Raised(r),
                              config.n, config.t, S, m, FALSE)
              /\ IF Raised(r)
                 THEN /\ pc' = "exit"
                      /\ UNCHANGED combined
                 ELSE /\ pc' = "combined"
                      /\ combined' = [sig |-> r, ids |-> S, msg |-> m]
    /\ UNCHANGED << config, rand_draws, keys >>
    /\ UNCHANGED clientVars

CombineNext == CombinePartialsOfAny

SpecCombine == CombineInit /\ [][CombineNext]_vars

\* ============================================================== claims

SubsetsOfSize(U, k) == { S \in SUBSET U : Cardinality(S) = k }

\* The partial signatures of the participants S over m, each made with
\* sign_bcs_message and the participant's own share.
PartialSigs(S, m) == [id \in S |-> sign_bcs_message(keys.private_keys[id], m)]

\* C1: a signature combined from the partial signatures of a size-t signer
\* set over m verifies under the group public key for m2 = m and for no
\* other message m2.
C1_CombinedVerifiesOnlyItsMessage ==
    (last.op = "verify_signature" /\ Cardinality(combined.ids) = keys.t)
        => (last.valid <=> (last.msg = combined.msg))

\* What remains of C1 when the drawn master secret is not 0.
CombinedVerifiesUnlessZeroSecret ==
    (last.op = "verify_signature" /\ Cardinality(combined.ids) = keys.t
        /\ keys.master_secret # 0)
        => (last.valid <=> (last.msg = combined.msg))

\* C2: subset invariance -- the signature combined from one size-t signer
\* set equals the combination of the partial signatures of every other
\* size-t signer set over the same message.
C2_SubsetInvariance ==
    (combined.sig # <<>> /\ Cardinality(combined.ids) = keys.t)
        => \A S2 \in SubsetsOfSize(1 .. keys.n, keys.t) :
               combine_threshold_signatures(PartialSigs(S2, combined.msg), keys.t)
                   = combined.sig

C2_Witness ==
    /\ combined.sig # <<>>
    /\ keys.n = 3 /\ keys.t = 2
    /\ combined.ids = {2, 3}
    /\ keys.polynomial[2] # 0

\* C3: Lagrange interpolation at 0 over any size-t subset of the n shares
\* gives the master secret the group public key is derived from.
C3_AnySubsetReconstructs ==
    keys.generated
        => /\ keys.group_public_key = multiply(1, keys.master_secret)
           /\ \A S \in SubsetsOfSize(1 .. keys.n, keys.t) :
                  reconstruct(keys.private_keys, SortedSeq(S)) = keys.master_secret

C3_Witness ==
    /\ keys.generated
    /\ keys.n = 3 /\ keys.t = 2
    /\ keys.master_secret = 4
    /\ keys.polynomial[2] = 3

\* The signature every valid quorum produces for m.
GroupSignature(m) == LagrangeCombine(PartialSigs(1 .. keys.t, m))

C5_TooFewPartialsRaise ==
    /\ (last.op = "combine_threshold_signatures"
            /\ Cardinality(last.ids) < config.t)
           => (last.raised /\ pc = "exit" /\ combined = NoSig)
    /\ combined.sig # <<>> => Cardinality(combined.ids) >= config.t

C5_Witness ==
    /\ last.op = "combine_threshold_signatures"
    /\ last.raised
    /\ config.t = 3
    /\ Cardinality(last.ids) = 2

\* C6: the threshold that signing and combining enforce (of the (n, t) in
\* force, the part they read) is the t under which the key set in use was
\* generated.
C6_ConfigFixedForKeySet ==
    last.op \in {"generate_threshold_signatures", "combine_threshold_signatures"}
        => last.t = keys.t

\* C7: construction with n < 1, t < 1 or t > n raises before any randomness
\* is drawn and before any key material exists; every other (n, t) is
\* stored as given.
C7_InvalidConfigFailsFirst ==
    last.op = "set_threshold_config"
        => /\ last.raised <=> (last.n < 1 \/ last.t < 1 \/ last.t > last.n)
           /\ last.raised
                  => (pc = "exit" /\ rand_draws = 0 /\ keys = NoKeys
                        /\ config = DefaultConfig)
           /\ ~last.raised => config = [n |-> last.n, t |-> last.t]

C7_Witness ==
    /\ last.op = "set_threshold_config"
    /\ last.raised
    /\ last.n = 2 /\ last.t = 3

\* ------------------------------------------------- claims on the coordinator

\* The calls that completed with a successful (200) response.
Successes == { s \in settled : fate[s] = "ok" }

\* The reported server ids the coordinator holds a partial signature for.
Collected == DOMAIN partial_signatures

\* call_servers_for_extraction has returned normally.
PastCollection == {"extracted", "client_combined", "key_set", "return_0"}

\* call_servers_for_extraction raised RuntimeError and the run returned 1.
NoQuorum ==
    pc = "return_1" /\ last.op = "call_servers_for_extraction" /\ last.raised

\* C8 as stated: the quorum wait ends exactly at the t-th successful
\* response or when all n calls have settled -- while the coordinator waits
\* fewer than t successes are in and a call is outstanding, and it goes on
\* to the consensus step with exactly t successes.
C8_WaitEndsAtTthSuccess ==
    /\ pc = "calling" =>
          Cardinality(Successes) < config.t /\ settled # Servers
    /\ pc \in PastCollection => Cardinality(Successes) = config.t
    /\ NoQuorum => settled = Servers

\* C8, amended: the quorum wait ends exactly when partial signatures of t
\* distinct reported server ids are collected or when all n calls have
\* settled -- while the coordinator waits fewer than t distinct ids are
\* collected and a call is outstanding, it goes on to the consensus step
\* with exactly t distinct ids, each of a successful response, and it stops
\* without quorum only when every call has settled.
C8_WaitEndsAtTDistinctIds ==
    /\ Collected = { servers[s] : s \in Successes }
    /\ pc = "calling" =>
          Cardinality(Collected) < config.t /\ settled # Servers
    /\ pc \in PastCollection => Cardinality(Collected) = config.t
    /\ NoQuorum => settled = Servers /\ Cardinality(Collected) < config.t

\* The wait went on past the t-th successful response, because two of the
\* responses carried the same server_id, and then ended on the t-th id.
C8_Witness ==
    /\ pc = "extracted"
    /\ Cardinality(Successes) = config.t + 1
    /\ Cardinality(Collected) = config.t

\* C9: when all n calls have settled and fewer than t of them succeeded,
\* the run ends with the insufficient-quorum error (RuntimeError, return 1)
\* and no transaction has been sent to the ledger; no run that returns 1
\* has sent one.
C9_NoQuorumNoLedger ==
    /\ (settled = Servers /\ Cardinality(Successes) < config.t) =>
          NoQuorum /\ ledger = <<>>
    /\ pc = "return_1" => ledger = <<>>

\* Two of the four calls succeeded, two failed, and the run has ended.
C9_Witness ==
    /\ settled = Servers
    /\ Cardinality(Successes) = config.t - 1
    /\ NoQuorum

\* C10 as stated: a failed call neither ends the run nor counts toward
\* quorum, and whenever at least t of the n calls are going to succeed the
\* coordinator eventually reaches quorum.
C10_FailuresNeverBlockQuorum ==
    /\ [](Collected \subseteq { servers[s] : s \in Successes })
    /\ [](NoQuorum => settled = Servers /\ Cardinality(Collected) < config.t)
    /\ (pc = "calling"
          /\ Cardinality({ s \in Servers : fate[s] = "ok" }) >= config.t)
       ~> (pc \in PastCollection)

\* C10, amended: a failed call neither ends the run nor counts toward
\* quorum, and whenever the calls that are going to succeed carry at least
\* t distinct server ids the coordinator eventually reaches quorum.
C10_FailuresNeverBlockDistinctQuorum ==
    /\ [](Collected \subseteq { servers[s] : s \in Successes })
    /\ [](NoQuorum => settled = Servers /\ Cardinality(Collected) < config.t)
    /\ (pc = "calling"
          /\ Cardinality({ servers[s] : s \in { x \in Servers : fate[x] = "ok" } })
                >= config.t)
       ~> (pc \in PastCollection)

\* A call failed, was received by the collection loop, and quorum was
\* reached all the same.
C10_Witness ==
    /\ pc = "extracted"
    /\ \E s \in settled : fate[s] = "fail"
    /\ Cardinality(Collected) = config.t

\* The rate-movement transactions on the ledger.
RateMovements ==
    { i \in 1 .. Len(ledger) :
          ledger[i].function \in { "record_interest_rate_movement_v5",
                                    "record_interest_rate_movement_dexlyn" } }

\* C11: every rate-movement transaction submitted to the ledger carries a
\* combined signature that verifies against the group public key for the
\* submitted (abs_bps, is_increase) message.  Key sets with a zero master
\* secret, whose signatures never verify, are left aside.
C11_OnlyVerifiedSignaturesSubmitted ==
    keys.master_secret # 0 =>
        \A i \in RateMovements :
            verify_signature(keys.group_public_key,
                             create_bcs_message_for_fomc(ledger[i].abs_bps,
                                                         ledger[i].is_increase),
                             ledger[i].signature)

\* C12: the partial signatures passed to combine_threshold_signatures are
\* those of servers whose reported value equals the consensus value.
C12_OnlyAgreeingPartialsCombined ==
    pc \in {"client_combined", "key_set", "return_0"} =>
        \A id \in combined.ids : rate_changes[id] = consensus_rate

\* The values of the four servers in the end-to-end scenario (as cuts).
Scenario50_50_25_50 == << 0 - 50, 0 - 50, 0 - 25, 0 - 50 >>

\* C13: with four distinct servers that all answer successfully with 50, 50,
\* 25, 50, once the partial signatures are combined the consensus value is
\* 50 and the signer set is {1, 2, 4}, server 3 being left out.
C13_ScenarioSignersAre124 ==
    ( /\ pc \in {"client_combined", "key_set", "return_0"}
      /\ servers = [s \in Servers |-> s]
      /\ \A s \in Servers : fate[s] = "ok"
      /\ \A id \in DOMAIN rate_changes :
            rate_changes[id] = Scenario50_50_25_50[id] )
    => ( /\ consensus_rate = 0 - 50
         /\ combined.ids = {1, 2, 4}
         /\ 3 \notin combined.ids )

\* The number of collected server ids whose value is r.
Support(r) ==
    Cardinality({ id \in DOMAIN rate_changes : rate_changes[id] = r })

\* C14: the consensus value returned by call_servers_for_extraction is a
\* collected value, no other value is reported by strictly more collected
\* servers, and when all collected servers agree it is their common value.
C14_ConsensusIsMostFrequent ==
    pc \in PastCollection =>
        /\ Support(consensus_rate) >= 1
        /\ \A r \in RateChanges : Support(r) <= Support(consensus_rate)
        /\ \A r \in RateChanges :
              (\A id \in DOMAIN rate_changes : rate_changes[id] = r)
                  => consensus_rate = r

\* The collected values disagree, the value collected first is in the
\* minority, and the consensus is the value two servers reported.
C14_Witness ==
    /\ pc = "extracted"
    /\ Support(consensus_rate) = 2
    /\ Support(rate_changes[order[1]]) = 1

\* C15: every partial signature aggregated into the combined signature
\* verifies against its declared participant's public share for the message
\* being attested.  Key sets with a zero share, whose public share is the
\* identity and never verifies, are left aside.
C15_BadPartialsNeverCombined ==
    ( /\ pc \in {"client_combined", "key_set", "return_0"}
      /\ \A id \in combined.ids : keys.private_keys[id] # 0 )
    => \A id \in combined.ids :
           verify_signature(keys.public_keys[id], combined.msg,
                            partial_signatures[id])

\* C16: the health check is advisory -- no run ends (return 1, no fan-out)
\* on the result of check_server_health alone.
C16_HealthCheckIsAdvisory ==
    ~( /\ pc = "return_1"
       /\ last.op = "check_server_health"
       /\ settled = {} )

\* C17: every rate-movement transaction on the ledger comes after a
\* registration of a group public key, and the key registered last before
\* it is the group public key of the key set that signed.
C17_KeyRegisteredBeforeSubmission ==
    \A i \in RateMovements :
        \E j \in 1 .. (i - 1) :
            /\ ledger[j].function = "set_bls_public_key"
            /\ ledger[j].public_key = keys.group_public_key
            /\ \A k \in (j + 1) .. (i - 1) :
                  ledger[k].function # "set_bls_public_key"

\* C18: create_bcs_message_for_fomc returns exactly 9 bytes -- the magnitude
\* in 8 bytes, least significant first, then one direction byte, with no
\* length prefix -- the bytes are a function of the arguments, and no other
\* (magnitude, direction) pair gives the same bytes.
C18_BcsEncodingInjective ==
    last.op = "create_bcs_message_for_fomc" =>
        /\ Len(bcs_message) = 9
        /\ \A k \in 1 .. 9 : bcs_message[k] \in 0 .. 255
        /\ bcs_message[1] + 256 * bcs_message[2] + 65536 * bcs_message[3]
              + 16777216 * bcs_message[4] = last.abs_bps
        /\ \A k \in 5 .. 8 : bcs_message[k] = 0
        /\ bcs_message[9] = (IF last.is_increase THEN 1 ELSE 0)
        /\ bcs_message =
              create_bcs_message_for_fomc(last.abs_bps, last.is_increase)
        /\ \A a \in Magnitudes, d \in BOOLEAN :
              create_bcs_message_for_fomc(a, d) = bcs_message
                  => a = last.abs_bps /\ d = last.is_increase

\* A magnitude that needs the second byte has been encoded as an increase.
C18_Witness ==
    /\ last.op = "create_bcs_message_for_fomc"
    /\ last.abs_bps = 256
    /\ last.is_increase
    /\ bcs_message = << 0, 1, 0, 0, 0, 0, 0, 0, 1 >>

\* C19: the /extract endpoint answers 400 to an empty text without calling
\* the extractor, 404 when the extractor returns no decision, 500 when
\* signing fails, and carries a body only with 200: then the body holds the
\* rate the extractor produced, the server's own id, abs_bps = |rate_change|,
\* is_increase = (rate_change > 0) and the partial signature of the server's
\* share over that rate's message.
C19_ExtractEndpointContract ==
    last.op = "extract_rate_and_sign" =>
        LET r     == last.response
            empty == strip(last.text) = <<>>
        IN  /\ empty => r.status = 400 /\ ~r.extractor_called
            /\ (~empty /\ last.extracted = <<>>) => r.status = 404
            /\ (~empty /\ last.extracted # <<>> /\ last.private_key = <<>>)
                  => r.status = 500
            /\ r.status \in {200, 400, 404, 500}
            /\ r.body # <<>> <=> r.status = 200
            /\ r.status = 200 =>
                  /\ ~empty
                  /\ last.extracted = << r.body[1].rate_change >>
                  /\ r.body[1].server_id = last.server_id
                  /\ r.body[1].abs_bps = Abs(r.body[1].rate_change)
                  /\ r.body[1].is_increase = (r.body[1].rate_change > 0)
                  /\ last.private_key # <<>>
                  /\ r.body[1].bls_threshold_signature =
                        sign_bcs_message(keys.private_keys[last.server_id],
                                         MessageOf(r.body[1].rate_change))

\* Server 3 answered 200 to a text with surrounding blanks, with a cut of
\* 25 basis points.
C19_Witness ==
    /\ last.op = "extract_rate_and_sign"
    /\ last.server_id = 3
    /\ last.text = << " ", "c", "u", "t", " " >>
    /\ last.response.status = 200
    /\ last.response.body[1].rate_change = 0 - 25
    /\ last.response.body[1].abs_bps = 25
    /\ ~last.response.body[1].is_increase

AnswersNo(answer) ==
    LET a == lower(strip(answer))
    IN  /\ Len(a) >= 2
        /\ a[1] = "n"
        /\ a[2] = "o"
        /\ (Len(a) = 2 \/ a[3] \in { " ", ".", "," })

\* What the final answer says when it is an object: the members between
\* its first "{" and its last "}".
FinalObject(answer) ==
    json_loads(slice(answer, find(answer, LBrace), rfind(answer, RBrace) + 1))

\* C21: chat.extract follows a fixed protocol.  Once it has returned: with
\* no article text it made no model call and returned None; with a negative
\* first answer it made exactly one call and returned None; otherwise it
\* made exactly three calls and returned None for a final answer that is not
\* a JSON object, and for one that is, basis_points negated for direction
\* "decrease", 0 for "maintain" and basis_points itself for "increase"
\* (basis_points being a number).
C21_ExtractFollowsProtocol ==
    pc = "chat_returned" =>
        IF last.article_text \in { None, << "" >> }
        THEN last.calls = 0 /\ last.result = None
        ELSE IF AnswersNo(last.first_answer)
        THEN last.calls = 1 /\ last.result = None
        ELSE /\ last.calls = 3
             /\ LET data == FinalObject(last.final_answer)
                    direction == get(data[1], "direction")
                    basis_points == get(data[1], "basis_points")
                IN  IF data = None THEN last.result = None
                    ELSE /\ direction = << JsonStr("maintain") >>
                                => last.result = << JsonInt(0) >>
                         /\ basis_points # None /\ basis_points[1].type = "int"
                                => /\ direction = << JsonStr("decrease") >>
                                       => last.result =
                                           << JsonInt(0 - basis_points[1].num) >>
                                   /\ direction = << JsonStr("increase") >>
                                       => last.result = basis_points

\* C21 with "negative" read as the test the code makes: the stripped first
\* answer contains "no" in lower case.
C21_ExtractFollowsProtocolOnSubstring ==
    pc = "chat_returned" =>
        IF last.article_text \in { None, << "" >> }
        THEN last.calls = 0 /\ last.result = None
        ELSE IF contains_no(lower(strip(last.first_answer)))
        THEN last.calls = 1 /\ last.result = None
        ELSE /\ last.calls = 3
             /\ LET data == FinalObject(last.final_answer)
                    direction == get(data[1], "direction")
                    basis_points == get(data[1], "basis_points")
                IN  IF data = None THEN last.result = None
                    ELSE /\ direction = << JsonStr("maintain") >>
                                => last.result = << JsonInt(0) >>
                         /\ basis_points # None /\ basis_points[1].type = "int"
                                => /\ direction = << JsonStr("decrease") >>
                                       => last.result =
                                           << JsonInt(0 - basis_points[1].num) >>
                                   /\ direction = << JsonStr("increase") >>
                                       => last.result = basis_points

\* The collected values no other collected value is more frequent than.
TiedValues ==
    { r \in RateChanges :
          Support(r) >= 1 /\ \A r2 \in RateChanges : Support(r2) <= Support(r) }

\* The lowest collected server id that reported one of the tied values.
LowestTiedId ==
    CHOOSE id \in DOMAIN rate_changes :
        /\ rate_changes[id] \in TiedValues
        /\ \A id2 \in DOMAIN rate_changes :
              rate_changes[id2] \in TiedValues => id <= id2

\* C22: when two or more collected values are tied for most frequent, the
\* consensus value is the one reported by the lowest participant id among
\* the tied values, whatever the order the responses arrived in.
C22_TieBrokenByLowestId ==
    (pc \in PastCollection /\ Cardinality(TiedValues) >= 2)
        => consensus_rate = rate_changes[LowestTiedId]

\* The collected server ids whose value is the consensus value.
Agreeing == { id \in DOMAIN rate_changes : rate_changes[id] = consensus_rate }

\* C23: the signer set the coordinator passes to combine_threshold_signatures
\* has exactly t participant ids, and they are the t numerically lowest ids
\* among the responses that agree with the consensus value.
C23_SignersAreLowestAgreeing ==
    pc \in {"client_combined", "key_set", "return_0"} =>
        /\ Cardinality(combined.ids) = config.t
        /\ combined.ids \subseteq Agreeing
        /\ \A id \in combined.ids : \A id2 \in Agreeing \ combined.ids : id < id2

\* C25: responses arriving after the coordinator has left the collection
\* loop are ignored -- the completion of a late call, successful or failed,
\* changes neither the collected values, nor the collected partial
\* signatures, nor the consensus value, nor the signer set and combined
\* signature, nor where the attestation stands, and no attestation that saw
\* a late completion ends in an error.
C25_LateResponsesIgnored ==
    /\ [][late' # late =>
              /\ rate_changes' = rate_changes
              /\ partial_signatures' = partial_signatures
              /\ order' = order
              /\ consensus_rate' = consensus_rate
              /\ combined' = combined
              /\ pc' = pc]_vars
    /\ [](late # <<>> => pc # "return_1")

\* A successful response arrived late, and the attestation went on to
\* submit its transaction.
C25_Witness ==
    /\ pc = "return_0"
    /\ \E s \in DOMAIN late : late[s] # <<>>

\* Both runs have combined a signature.
BothRunsCombined == pc = "client_combined" /\ first_run # <<>>

C26_ServersVerifyOwnPartials ==
    ( /\ last.op = "extract_rate_and_sign"
      /\ last.response.status = 200 )
    => verify_signature(keys.public_keys[last.server_id],
                        MessageOf(last.response.body[1].rate_change),
                        last.response.body[1].bls_threshold_signature)

\* C28: the process-wide configuration satisfies 1 <= t <= n in every
\* reachable state; it is (4, 3) initially; a call of set_threshold_config
\* raises exactly on n < 1, t < 1 or t > n; after a call that succeeded
\* get_n() and get_t() return its arguments; and a call that raised leaves
\* the configuration as it was.
C28_ConfigAlwaysValid ==
    /\ (get_n = 4 /\ get_t = 3)
    /\ [](1 <= get_t /\ get_t <= get_n)
    /\ [](last.op = "set_threshold_config" =>
             /\ last.raised <=> (last.n < 1 \/ last.t < 1 \/ last.t > last.n)
             /\ ~last.raised => (get_n = last.n /\ get_t = last.t))
    /\ [][(last'.op = "set_threshold_config" /\ last'.raised)
              => (get_n' = get_n /\ get_t' = get_t)]_vars

\* An invalid call after a successful one: the configuration is still the
\* one the successful call set.
C28_Witness ==
    /\ last.op = "set_threshold_config"
    /\ last.raised
    /\ last.n = 2 /\ last.t = 3
    /\ get_n = 3 /\ get_t = 2

\* C29: quorum is counted over distinct reported server ids.  Whenever
\* call_servers_for_extraction has returned normally it holds values and
\* partial signatures for exactly t distinct server ids; and a successful
\* response carrying a server id that is already collected overwrites that
\* id's value and signature, leaves the set of collected ids as it was, and
\* does not end the wait with a quorum.
C29_QuorumCountsDistinctIds ==
    /\ [](pc \in PastCollection =>
             /\ Cardinality(DOMAIN partial_signatures) = config.t
             /\ DOMAIN rate_changes = DOMAIN partial_signatures)
    /\ [][\A s \in Servers :
             ( /\ s \in settled' \ settled
               /\ fate[s] = "ok"
               /\ servers[s] \in DOMAIN partial_signatures )
             => /\ DOMAIN partial_signatures' = DOMAIN partial_signatures
                /\ DOMAIN rate_changes' = DOMAIN rate_changes
                /\ order' = order
                /\ \E r \in RateChanges :
                      /\ rate_changes' = Store(rate_changes, servers[s], r)
                      /\ partial_signatures' =
                             Store(partial_signatures, servers[s],
                                   sign_rate_change(servers[s], r))
                /\ pc' # "extracted"]_vars

\* All four calls succeeded, two of them under the same server id, and the
\* run went through with the three distinct ids.
C29_Witness ==
    /\ pc = "return_0"
    /\ Cardinality(Successes) = DEFAULT_N
    /\ Cardinality(DOMAIN partial_signatures) = config.t
    /\ DOMAIN rate_changes = DOMAIN partial_signatures

\* C30: combine_threshold_signatures applies the Lagrange coefficients over
\* all the partial signatures it is given -- for every valid (n, t), every
\* key set and every message, the signature combined from the partial
\* signatures of k participants, t <= k <= n, is the signature combined
\* from the partial signatures of every size-t subset of them.
C30_CombineOverAnyQuorum ==
    pc = "combined" =>
        /\ Cardinality(combined.ids) >= config.t
        /\ DOMAIN partial_signatures = combined.ids
        /\ \A T \in SubsetsOfSize(combined.ids, config.t) :
              combine_threshold_signatures(
                  [id \in T |-> partial_signatures[id]], config.t) = combined.sig

\* Three participants of a 2-of-3 key set with a non-zero master secret
\* signed, and the signature combined from all three verifies under the
\* group public key.
C30_Witness ==
    /\ pc = "combined"
    /\ config = [n |-> 3, t |-> 2]
    /\ Cardinality(combined.ids) = 3
    /\ keys.master_secret # 0
    /\ verify_signature(keys.group_public_key, combined.msg, combined.sig[1])

====
